---- MODULE Spec2Model ----
(***************************************************************************)
(* Model of sapling's absorb extension (eden/scm/sapling/ext/absorb):      *)
(* filefixupstate builds a linelog from a stack of file snapshots,         *)
(* diffwith classifies the hunks of a target content into fixups, and      *)
(* apply replays the fixups into the linelog and checks out the final      *)
(* content of every snapshot.  fixupstate, absorb and absorbcmd run these  *)
(* for a stack of changesets: diffwith, the prompt, apply, and the commit  *)
(* of the changesets that changed.                                         *)
(*                                                                         *)
(* A file content is the sequence of its lines (what mdiff.splitnewlines   *)
(* returns); a line is a number standing for its text.  Line numbers and   *)
(* the chunk coordinates a1, a2, b1, b2 are 0-based as in the source;      *)
(* TLA+ sequences are 1-based, so indexing adds one.  A gap position       *)
(* k + 0.5 is stored doubled, as the odd number 2k + 1.                    *)
(* The model covers runs with opts["edit_lines"] unset.                    *)
(***************************************************************************)
EXTENDS Integers, Sequences, FiniteSets, TLC

\* bounds of the model: snapshots in a stack, lines in one snapshot, lines
\* in a whole stack, lines in the target, distinct lines, lines in a whole
\* stack of a run of the absorb command
MaxSnaps == 3
MaxLen == 4
MaxLines == 7
MaxTarget == 3
NumVals == 2
MaxAbsorbLines == 5

Vals == 1..NumVals

Content(n) == UNION {[1..k -> Vals] : k \in 0..n}

\* the concrete scenario of the specification's section 8, with the lines
\* "a\n" = 1, "b\n" = 2, "c\n" = 3, "B\n" = 4, "C\n" = 5
ScenarioS0 == <<1, 2, 3>>
ScenarioS1 == <<1, 4, 3>>
ScenarioTarget == <<1, 4, 5>>

RECURSIVE TotalLines(_)
TotalLines(cl) == IF cl = <<>> THEN 0 ELSE Len(Head(cl)) + TotalLines(Tail(cl))

\* the stacks of snapshots, oldest first; a stack is not empty
Stacks == {cl \in UNION {[1..k -> Content(MaxLen)] : k \in 1..MaxSnaps} :
              TotalLines(cl) <= MaxLines}
             \cup {<<ScenarioS0, ScenarioS1>>}

Targets == Content(MaxTarget) \cup {ScenarioTarget}

Max(x, y) == IF x >= y THEN x ELSE y

Reverse(s) == [k \in 1..Len(s) |-> s[Len(s) + 1 - k]]

RECURSIVE Flatten(_)
Flatten(ss) == IF ss = <<>> THEN <<>> ELSE Head(ss) \o Flatten(Tail(ss))

---------------------------------------------------------------------------
\* mdiff.allblocks: a line-level diff.  The hunks are the gaps of a longest
\* common subsequence of the two contents.

RECURSIVE LcsLen(_, _, _, _)
LcsLen(a, b, i, j) ==
    IF i > Len(a) \/ j > Len(b) THEN 0
    ELSE IF a[i] = b[j] THEN 1 + LcsLen(a, b, i + 1, j + 1)
    ELSE Max(LcsLen(a, b, i + 1, j), LcsLen(a, b, i, j + 1))

\* the matched pairs <<i, j>> (1-based), in order
RECURSIVE Matches(_, _, _, _)
Matches(a, b, i, j) ==
    IF i > Len(a) \/ j > Len(b) THEN <<>>
    ELSE IF a[i] = b[j] THEN <<(<<i, j>>)>> \o Matches(a, b, i + 1, j + 1)
    ELSE IF LcsLen(a, b, i + 1, j) >= LcsLen(a, b, i, j + 1)
         THEN Matches(a, b, i + 1, j)
         ELSE Matches(a, b, i, j + 1)

\* the blocks <<chunk, btype>> in order, chunk = <<a1, a2, b1, b2>>: a block
\* of type "!" for every run of differing lines between two matched lines,
\* a block of type "=" for every run of matched lines
RECURSIVE Blocks(_, _, _, _)
Blocks(m, k, la, lb) ==
    LET pa == IF k = 0 THEN 0 ELSE m[k][1]
        pb == IF k = 0 THEN 0 ELSE m[k][2]
        na == IF k = Len(m) THEN la + 1 ELSE m[k + 1][1]
        nb == IF k = Len(m) THEN lb + 1 ELSE m[k + 1][2]
        diff == IF na > pa + 1 \/ nb > pb + 1
                THEN <<(<<(<<pa, na - 1, pb, nb - 1>>), "!">>)>>
                ELSE <<>>
        same == <<(<<(<<na - 1, na, nb - 1, nb>>), "=">>)>>
    IN  IF k = Len(m) THEN diff ELSE diff \o same \o Blocks(m, k + 1, la, lb)

\* consecutive "=" blocks are one block
RECURSIVE Joined(_)
Joined(bs) ==
    IF Len(bs) < 2 THEN bs
    ELSE LET x == bs[1]
             y == bs[2]
         IN  IF x[2] = "=" /\ y[2] = "="
             THEN Joined(<<(<<(<<x[1][1], y[1][2], x[1][3], y[1][4]>>), "=">>)>>
                         \o SubSeq(bs, 3, Len(bs)))
             ELSE <<x>> \o Joined(Tail(bs))

allblocks(a, b) == Joined(Blocks(Matches(a, b, 1, 1), 0, Len(a), Len(b)))

\* _alldiffchunks without the test of the block type
_alldiffchunks_nofilter(alines, blines) ==
    LET blocks == allblocks(alines, blines)
    IN  [k \in 1..Len(blocks) |-> blocks[k][1]]

\* _alldiffchunks: like mdiff.allblocks, but only the differences
_alldiffchunks(alines, blines) ==
    LET blocks == allblocks(alines, blines)
        diffs == SelectSeq(blocks, LAMBDA x : x[2] = "!")
    IN  [k \in 1..Len(diffs) |-> diffs[k][1]]

---------------------------------------------------------------------------
\* bindings.linelog.IntLineLog.  The log is the sequence of every line ever
\* inserted, in program order, each tagged with the revision and line number
\* that introduced it (rev, linenum) and the revision that deleted it (hi,
\* 0 while it is not deleted).  A line is part of revision r iff
\* rev <= r and (hi = 0 or r < hi).

EmptyLineLog == [entries |-> <<>>, max_rev |-> 0, ok |-> TRUE]

Visible(e, r) == e.rev <= r /\ (e.hi = 0 \/ r < e.hi)

max_rev(llog) == llog.max_rev

\* checkout_lines(rev): the lines of rev as (rev, linenum), then the dummy
\* end line
checkout_lines(llog, r) ==
    LET vis == SelectSeq(llog.entries, LAMBDA e : Visible(e, r))
    IN  [k \in 1..Len(vis) |-> <<vis[k].rev, vis[k].linenum>>] \o <<(<<0, 0>>)>>

\* checkout_lines(rev, 0): every line of the log as (rev, linenum, deleted)
checkout_lines_full(llog, r) ==
    [k \in 1..Len(llog.entries) |->
        <<llog.entries[k].rev, llog.entries[k].linenum,
          ~Visible(llog.entries[k], r)>>] \o <<(<<0, 0, FALSE>>)>>

\* position in the log of line n (0-based) of revision r; the end of the log
\* for the dummy end line
LinePos(llog, r, n) ==
    LET idx == {k \in 1..Len(llog.entries) : Visible(llog.entries[k], r)}
        nth == {k \in idx : Cardinality({q \in idx : q < k}) = n}
    IN  IF nth = {} THEN Len(llog.entries) + 1 ELSE CHOOSE k \in nth : TRUE

\* the number of lines of revision r
LineCount(llog, r) ==
    Cardinality({k \in 1..Len(llog.entries) : Visible(llog.entries[k], r)})

\* edit_chunk(a_rev, a1, a2, b_rev, b1, b2): in the content of a_rev, delete
\* the lines [a1, a2) and insert lines b1..b2-1 before line a1, both as of
\* revision b_rev.  The deletion covers the log from line a1 to line a2 - 1
\* of a_rev, the lines in between that a_rev does not see included.  An
\* invalid range fails: ok becomes FALSE and the log stays as it is.
edit_chunk(llog, a_rev, a1, a2, b_rev, b1, b2) ==
    LET es == llog.entries
        p1 == LinePos(llog, a_rev, a1)
        p2 == IF a1 < a2 THEN LinePos(llog, a_rev, a2 - 1) ELSE p1 - 1
        new == [k \in 1..(b2 - b1) |->
                   [rev |-> b_rev, linenum |-> b1 + k - 1, hi |-> 0]]
        del(e) == IF e.hi = 0 \/ b_rev < e.hi THEN [e EXCEPT !.hi = b_rev] ELSE e
        dead == [k \in 1..(p2 - p1 + 1) |-> del(es[p1 + k - 1])]
    IN  IF ~llog.ok \/ a1 < 0 \/ a1 > a2 \/ b1 > b2 \/ a2 > LineCount(llog, a_rev)
        THEN [llog EXCEPT !.ok = FALSE]
        ELSE [entries |-> SubSeq(es, 1, p1 - 1) \o new \o dead
                            \o SubSeq(es, p2 + 1, Len(es)),
              max_rev |-> Max(llog.max_rev, b_rev),
              ok |-> TRUE]

---------------------------------------------------------------------------
\* filefixupstate

\* _calculate_gap_lines(linelog): one pass over checkout_lines(max_rev, 0)
RECURSIVE GapScan(_, _, _, _)
GapScan(all_lines, k, lineno, last_gap_line) ==
    IF k > Len(all_lines) THEN <<>>
    ELSE IF all_lines[k][3] /\ lineno # last_gap_line /\ lineno >= 0
         THEN <<2 * lineno + 1>> \o GapScan(all_lines, k + 1, lineno, lineno)
         ELSE GapScan(all_lines, k + 1, lineno + 1, last_gap_line)

_calculate_gap_lines(llog) ==
    GapScan(checkout_lines_full(llog, max_rev(llog)), 1, -1, -1)

\* bisect.bisect_left(gaps, x) for an integer x: the 0-based index of the
\* first gap >= x, Len(gaps) if there is none
bisect_left(gaps, x) == Cardinality({k \in 1..Len(gaps) : gaps[k] < 2 * x})

\* _iscontinuous looking at the first gap, without the bisection
_iscontinuous_firstgap(gaps, a1, a2) ==
    IF a1 >= a2 THEN TRUE
    ELSE IF gaps = <<>> THEN TRUE
    ELSE gaps[1] >= 2 * a2

\* _iscontinuous answering True whatever the gaps are
_iscontinuous_always(gaps, a1, a2) == TRUE

_iscontinuous(gaps, a1, a2) ==
    IF a1 >= a2 THEN TRUE
    ELSE LET gap_index == bisect_left(gaps, a1)
         IN  IF gap_index >= Len(gaps) THEN TRUE
             ELSE gaps[gap_index + 1] >= 2 * a2

\* _optimizefixups: cur is pcurrentchunk[0], <<-1, -1, -1, -1, -1>> at first
RECURSIVE OptimizeFrom(_, _, _, _)
OptimizeFrom(gaps, fixups, k, cur) ==
    LET pushchunk == IF cur[1] # -1 THEN <<cur>> ELSE <<>>
    IN  IF k > Len(fixups) THEN pushchunk
        ELSE LET c == fixups[k]
             IN  IF /\ c[2] = cur[3]
                    /\ c[4] = cur[5]
                    /\ c[1] = cur[1]
                    /\ _iscontinuous(gaps, Max(c[2] - 1, 0), c[2])
                 THEN OptimizeFrom(gaps, fixups, k + 1,
                                   <<cur[1], cur[2], c[3], cur[4], c[5]>>)
                 ELSE pushchunk \o OptimizeFrom(gaps, fixups, k + 1, c)

\* _optimizefixups without the test of self._iscontinuous
_optimizefixups_nogaps(gaps, fixups) ==
    OptimizeFrom(<<>>, fixups, 1, <<-1, -1, -1, -1, -1>>)

_optimizefixups(gaps, fixups) ==
    OptimizeFrom(gaps, fixups, 1, <<-1, -1, -1, -1, -1>>)

\* involvedrevs with the slice of annotated one line too early
involvedrevs_offbyone(chunk, annotated) ==
    LET a1 == chunk[1]
        a2 == chunk[2]
        nearbylinenums == {a2, Max(0, a1 - 1)}
    IN  IF a1 < a2
        THEN {annotated[i + 1][1] : i \in Max(a1 - 1, 0)..Max(a2 - 2, 0)}
        ELSE IF annotated # <<>>
             THEN {annotated[i + 1][1] :
                      i \in {n \in nearbylinenums : annotated[n + 1][1] # 1}}
             ELSE {}

\* involvedrevs without the filter "annotated[i][0] != 1" on the nearby lines
involvedrevs_withpublic(chunk, annotated) ==
    LET a1 == chunk[1]
        a2 == chunk[2]
        nearbylinenums == {a2, Max(0, a1 - 1)}
    IN  IF a1 < a2 THEN {annotated[i + 1][1] : i \in a1..(a2 - 1)}
        ELSE IF annotated # <<>>
             THEN {annotated[i + 1][1] : i \in nearbylinenums}
             ELSE {}

\* the revisions involved in a chunk: those of annotated[a1:a2], or for a
\* pure insertion those of the nearby lines that are not of revision 1
involvedrevs(chunk, annotated) ==
    LET a1 == chunk[1]
        a2 == chunk[2]
        nearbylinenums == {a2, Max(0, a1 - 1)}
    IN  IF a1 < a2 THEN {annotated[i + 1][1] : i \in a1..(a2 - 1)}
        ELSE IF annotated # <<>>
             THEN {annotated[i + 1][1] :
                      i \in {n \in nearbylinenums : annotated[n + 1][1] # 1}}
             ELSE {}

\* linefixups without the test "rev > 1"
linefixups_anyrev(chunk, annotated) ==
    LET a1 == chunk[1]
        a2 == chunk[2]
        b1 == chunk[3]
        b2 == chunk[4]
        one(i) == LET rev == annotated[i + 1][1]
                      nb1 == IF b1 = b2 THEN 0 ELSE b1 + i - a1
                      nb2 == IF b1 = b2 THEN 0 ELSE nb1 + 1
                  IN  <<(<<rev + 1, i, i + 1, nb1, nb2>>)>>
    IN  Flatten([k \in 1..(a2 - a1) |-> one(a1 + k - 1)])

\* linefixups with every fixup one line too far: (i + 1, i + 2)
linefixups_nextline(chunk, annotated) ==
    LET a1 == chunk[1]
        a2 == chunk[2]
        b1 == chunk[3]
        b2 == chunk[4]
        one(i) == LET rev == annotated[i + 1][1]
                      nb1 == IF b1 = b2 THEN 0 ELSE b1 + i - a1
                      nb2 == IF b1 = b2 THEN 0 ELSE nb1 + 1
                  IN  IF rev > 1 THEN <<(<<rev + 1, i + 1, i + 2, nb1, nb2>>)>>
                      ELSE <<>>
    IN  Flatten([k \in 1..(a2 - a1) |-> one(a1 + k - 1)])

\* linefixups with the lines of the chunk taken last to first
linefixups_reversed(chunk, annotated) ==
    LET a1 == chunk[1]
        a2 == chunk[2]
        b1 == chunk[3]
        b2 == chunk[4]
        one(i) == LET rev == annotated[i + 1][1]
                      nb1 == IF b1 = b2 THEN 0 ELSE b1 + i - a1
                      nb2 == IF b1 = b2 THEN 0 ELSE nb1 + 1
                  IN  IF rev > 1 THEN <<(<<rev + 1, i, i + 1, nb1, nb2>>)>>
                      ELSE <<>>
    IN  Flatten([k \in 1..(a2 - a1) |-> one(a2 - k)])

\* the per-line fixups of the "1:1 line mapping, or chunk was deleted" branch
linefixups(chunk, annotated) ==
    LET a1 == chunk[1]
        a2 == chunk[2]
        b1 == chunk[3]
        b2 == chunk[4]
        one(i) == LET rev == annotated[i + 1][1]
                      nb1 == IF b1 = b2 THEN 0 ELSE b1 + i - a1
                      nb2 == IF b1 = b2 THEN 0 ELSE nb1 + 1
                  IN  IF rev > 1 THEN <<(<<rev + 1, i, i + 1, nb1, nb2>>)>>
                      ELSE <<>>
    IN  Flatten([k \in 1..(a2 - a1) |-> one(a1 + k - 1)])

\* newfixups without the test "rev > 1" on a chunk of a single revision
newfixups_anyrev(chunk, annotated, gaps) ==
    LET a1 == chunk[1]
        a2 == chunk[2]
        b1 == chunk[3]
        b2 == chunk[4]
        revs == involvedrevs(chunk, annotated)
    IN  IF Cardinality(revs) = 1 /\ _iscontinuous(gaps, a1, a2 - 1)
        THEN LET rev == CHOOSE r \in revs : TRUE
             IN  <<(<<rev + 1, a1, a2, b1, b2>>)>>
        ELSE IF a2 - a1 = b2 - b1 \/ b1 = b2
             THEN linefixups(chunk, annotated)
             ELSE <<>>

\* newfixups with fixuprev = rev instead of rev + 1 on a chunk of a single
\* revision
newfixups_samerev(chunk, annotated, gaps) ==
    LET a1 == chunk[1]
        a2 == chunk[2]
        b1 == chunk[3]
        b2 == chunk[4]
        revs == involvedrevs(chunk, annotated)
    IN  IF Cardinality(revs) = 1 /\ _iscontinuous(gaps, a1, a2 - 1)
        THEN LET rev == CHOOSE r \in revs : TRUE
             IN  IF rev > 1 THEN <<(<<rev, a1, a2, b1, b2>>)>> ELSE <<>>
        ELSE IF a2 - a1 = b2 - b1 \/ b1 = b2
             THEN linefixups(chunk, annotated)
             ELSE <<>>

\* newfixups taking the per-line branch whatever the lengths are
newfixups_alwayslines(chunk, annotated, gaps) ==
    LET a1 == chunk[1]
        a2 == chunk[2]
        b1 == chunk[3]
        b2 == chunk[4]
        revs == involvedrevs(chunk, annotated)
    IN  IF Cardinality(revs) = 1 /\ _iscontinuous(gaps, a1, a2 - 1)
        THEN LET rev == CHOOSE r \in revs : TRUE
             IN  IF rev > 1 THEN <<(<<rev + 1, a1, a2, b1, b2>>)>> ELSE <<>>
        ELSE linefixups(chunk, annotated)

\* newfixups with fixuprev = rev, the snapshot's revision, for a chunk of a
\* single revision
newfixups_fixuprev(chunk, annotated, gaps) ==
    LET a1 == chunk[1]
        a2 == chunk[2]
        b1 == chunk[3]
        b2 == chunk[4]
        revs == involvedrevs(chunk, annotated)
    IN  IF Cardinality(revs) = 1 /\ _iscontinuous(gaps, a1, a2 - 1)
        THEN LET rev == CHOOSE r \in revs : TRUE
             IN  IF rev > 1 THEN <<(<<rev, a1, a2, b1, b2>>)>> ELSE <<>>
        ELSE IF a2 - a1 = b2 - b1 \/ b1 = b2
             THEN linefixups(chunk, annotated)
             ELSE <<>>

\* newfixups of _analysediffchunk, before _optimizefixups
newfixups(chunk, annotated, gaps) ==
    LET a1 == chunk[1]
        a2 == chunk[2]
        b1 == chunk[3]
        b2 == chunk[4]
        revs == involvedrevs(chunk, annotated)
    IN  IF Cardinality(revs) = 1 /\ _iscontinuous(gaps, a1, a2 - 1)
        THEN LET rev == CHOOSE r \in revs : TRUE
             IN  IF rev > 1 THEN <<(<<rev + 1, a1, a2, b1, b2>>)>> ELSE <<>>
        ELSE IF a2 - a1 = b2 - b1 \/ b1 = b2
             THEN linefixups(chunk, annotated)
             ELSE <<>>

_analysediffchunk(chunk, annotated, gaps) ==
    _optimizefixups(gaps, newfixups(chunk, annotated, gaps))

\* EditChunks with the chunks taken first to last
RECURSIVE EditChunks_forward(_, _, _, _)
EditChunks_forward(llog, llrev, chunks, k) ==
    IF k = 0 THEN llog
    ELSE LET c == chunks[Len(chunks) - k + 1]
         IN  EditChunks_forward(edit_chunk(llog, llrev, c[1], c[2],
                                           llrev, c[3], c[4]),
                                llrev, chunks, k - 1)

\* _buildlinelog: snapshot i (0-based) is linelog revision 2i + 1; its
\* chunks against the previous snapshot are edited in from the last to the
\* first
RECURSIVE EditChunks(_, _, _, _)
EditChunks(llog, llrev, chunks, k) ==
    IF k = 0 THEN llog
    ELSE EditChunks(edit_chunk(llog, llrev, chunks[k][1], chunks[k][2],
                               llrev, chunks[k][3], chunks[k][4]),
                    llrev, chunks, k - 1)

RECURSIVE BuildFrom(_, _, _)
BuildFrom(cl, i, llog) ==
    IF i >= Len(cl) THEN llog
    ELSE LET alines == IF i = 0 THEN <<>> ELSE cl[i]
             blines == cl[i + 1]
             llrev == i * 2 + 1
             chunks == _alldiffchunks(alines, blines)
         IN  BuildFrom(cl, i + 1, EditChunks(llog, llrev, chunks, Len(chunks)))

_buildlinelog(cl) == BuildFrom(cl, 0, EmptyLineLog)

\* _getline: an odd revision is a line of a snapshot, an even one a line of
\* the target
_getline(cl, tl, lineinfo) ==
    LET rev == lineinfo[1]
        linenum == lineinfo[2]
    IN  IF rev % 2 = 1 THEN cl[(rev \div 2) + 1][linenum + 1]
        ELSE tl[linenum + 1]

\* _checkoutlinelog with the snapshot revision i * 2 + 1 for snapshot i
_checkoutlinelog_snapshotrev(llog, cl, tl) ==
    [k \in 1..Len(cl) |->
        LET rev == k * 2 - 1
            all == checkout_lines(llog, rev)
            annot == SubSeq(all, 1, Len(all) - 1)
        IN  [n \in 1..Len(annot) |-> _getline(cl, tl, annot[n])]]

\* _checkoutlinelog: the content of revision (i + 1) * 2 for every snapshot i
_checkoutlinelog(llog, cl, tl) ==
    [k \in 1..Len(cl) |->
        LET rev == k * 2
            all == checkout_lines(llog, rev)
            annot == SubSeq(all, 1, Len(all) - 1)
        IN  [n \in 1..Len(annot) |-> _getline(cl, tl, annot[n])]]

\* ApplyFrom with the fixups taken first to last
RECURSIVE ApplyFrom_forward(_, _, _, _)
ApplyFrom_forward(st, mrev, fixups, k) ==
    IF k = 0 \/ ~st.llog.ok THEN st
    ELSE LET f == fixups[Len(fixups) - k + 1]
         IN  ApplyFrom_forward([llog |-> edit_chunk(st.llog, mrev, f[2], f[3],
                                                    f[1], f[4], f[5]),
                                calls |-> Append(st.calls, f)],
                               mrev, fixups, k - 1)

\* ApplyFrom with the edit attributed to the snapshot revision rev - 1
RECURSIVE ApplyFrom_snaprev(_, _, _, _)
ApplyFrom_snaprev(st, mrev, fixups, k) ==
    IF k = 0 \/ ~st.llog.ok THEN st
    ELSE ApplyFrom_snaprev([llog |-> edit_chunk(st.llog, mrev, fixups[k][2],
                                                fixups[k][3], fixups[k][1] - 1,
                                                fixups[k][4], fixups[k][5]),
                            calls |-> Append(st.calls, fixups[k])],
                           mrev, fixups, k - 1)

\* the loop of apply: edit_chunk for the fixups, last to first, all against
\* the max_rev read before the loop; calls are the edit_chunk calls made, in
\* order, as (rev, a1, a2, b1, b2)
RECURSIVE ApplyFrom(_, _, _, _)
ApplyFrom(st, mrev, fixups, k) ==
    IF k = 0 \/ ~st.llog.ok THEN st
    ELSE ApplyFrom([llog |-> edit_chunk(st.llog, mrev, fixups[k][2],
                                        fixups[k][3], fixups[k][1],
                                        fixups[k][4], fixups[k][5]),
                    calls |-> Append(st.calls, fixups[k])],
                   mrev, fixups, k - 1)

\* applyfixups with the fixups taken first to last
applyfixups_forward(llog, fixups) ==
    ApplyFrom_forward([llog |-> llog, calls |-> <<>>], max_rev(llog), fixups,
                      Len(fixups))

applyfixups(llog, fixups) ==
    ApplyFrom([llog |-> llog, calls |-> <<>>], max_rev(llog), fixups,
              Len(fixups))

---------------------------------------------------------------------------
VARIABLES
    pc,            \* "init" after __init__, "diffed" after diffwith, then
                   \* "applied" after apply, "failed" if apply raised
    contentlines,  \* self.contentlines
    linelog,       \* self.linelog
    gap_lines,     \* self.gap_lines
    targetlines,   \* self.targetlines
    annotated,     \* diffwith's annotated
    chunks,        \* per chunk of diffwith: the chunk and its newfixups
    fixups,        \* self.fixups
    chunkstats,    \* self.chunkstats
    applied,       \* the edit_chunk calls apply made: (rev, a1, a2, b1, b2)
    finalcontents, \* self.finalcontents
    run,           \* the run of the absorb command around the file, if any
    draft,         \* a call of getdraftstack: its arguments and its result
    shutdown,      \* a call of wait_for_shutdown and the process it waits for
    call           \* a call of a helper of filefixupstate on its own

vars == <<pc, contentlines, linelog, gap_lines, targetlines, annotated,
          chunks, fixups, chunkstats, applied, finalcontents, run,
          draft, shutdown, call>>

\* the variables of the calls that are outside the absorb of one file
outside == <<draft, shutdown, call>>

\* no call of getdraftstack, of wait_for_shutdown, of a helper
NoDraft == [pc |-> "none"]
NoShutdown == [pc |-> "none"]
NoCall == [pc |-> "none"]

\* the variables of the absorb of one file
absorbvars == <<pc, contentlines, linelog, gap_lines, targetlines, annotated,
                chunks, fixups, chunkstats, applied, finalcontents, run>>

\* no changeset, as a reference to one
None == [kind |-> "none", idx |-> 0]

\* the run of absorb: stage is where absorb() is, dry_run, apply_changes and
\* answer are the options and the prompt's answer as absorb read them, calls
\* the calls it made on the fixupstate, inparent whether the parent of the
\* stack has the file, others whether each changeset changes other files
\* too, replacemap and commitp the outcome of _commitstack for each
\* changeset and the parent it took for it, ret what absorbcmd returned (0
\* for None), raised the error absorb raised; -1 stands for no answer and
\* no return yet
NoRun ==
    [stage |-> "none", dry_run |-> FALSE, apply_changes |-> FALSE,
     answer |-> -1, calls |-> <<>>, inparent |-> TRUE, others |-> <<>>,
     replacemap |-> <<>>, commitp |-> <<>>, ret |-> -1, raised |-> "none"]

\* no filefixupstate and no absorb
NoAbsorb ==
    /\ run = NoRun
    /\ contentlines = <<>>
    /\ linelog = EmptyLineLog
    /\ gap_lines = <<>>
    /\ pc = "none"
    /\ targetlines = <<>>
    /\ annotated = <<>>
    /\ chunks = <<>>
    /\ fixups = <<>>
    /\ chunkstats = <<0, 0>>
    /\ applied = <<>>
    /\ finalcontents = <<>>

\* filefixupstate.__init__
Init ==
    /\ run = NoRun
    /\ draft = NoDraft
    /\ shutdown = NoShutdown
    /\ call = NoCall
    /\ contentlines \in Stacks
    /\ linelog = _buildlinelog(contentlines)
    /\ gap_lines = _calculate_gap_lines(linelog)
    /\ pc = "init"
    /\ targetlines = <<>>
    /\ annotated = <<>>
    /\ chunks = <<>>
    /\ fixups = <<>>
    /\ chunkstats = <<0, 0>>
    /\ applied = <<>>
    /\ finalcontents = <<>>

\* diffwith's annotated: the last dummy line belongs to the last actual line
annotate(llog) ==
    LET ann == checkout_lines(llog, max_rev(llog))
        n == Len(ann)
    IN  IF n > 1 THEN [ann EXCEPT ![n] = ann[n - 1]] ELSE ann

diffwith(targetfctx) ==
    /\ pc = "init"
    /\ LET alines == contentlines[Len(contentlines)]
           blines == targetfctx
           ann == annotate(linelog)
           cs == _alldiffchunks(alines, blines)
           res == [k \in 1..Len(cs) |->
                      [chunk |-> cs[k],
                       newfixups |-> _analysediffchunk(cs[k], ann, gap_lines)]]
       IN  /\ targetlines' = blines
           /\ annotated' = ann
           /\ chunks' = res
           /\ fixups' = Flatten([k \in 1..Len(res) |-> res[k].newfixups])
           /\ chunkstats' =
                  <<Cardinality({k \in 1..Len(res) : res[k].newfixups # <<>>}),
                    Len(res)>>
    /\ pc' = "diffed"
    /\ UNCHANGED <<contentlines, linelog, gap_lines, applied, finalcontents>>

apply ==
    /\ pc = "diffed"
    /\ LET done == applyfixups(linelog, fixups)
       IN  /\ linelog' = done.llog
           /\ applied' = done.calls
           /\ IF done.llog.ok
              THEN /\ finalcontents' =
                          _checkoutlinelog(done.llog, contentlines, targetlines)
                   /\ pc' = "applied"
              ELSE /\ finalcontents' = finalcontents
                   /\ pc' = "failed"
    /\ UNCHANGED <<contentlines, gap_lines, targetlines, annotated, chunks,
                   fixups, chunkstats>>

Next ==
    \/ \E targetfctx \in Targets :
           diffwith(targetfctx) /\ UNCHANGED <<run, outside>>
    \/ apply /\ UNCHANGED <<run, outside>>

Spec == Init /\ [][Next]_vars

\* filefixupstate(fctxs, path) called with any list of file contexts, the
\* empty list included: before __init__ runs, contentlines holds the
\* contents of the fctxs argument
InitBuild ==
    /\ run = NoRun
    /\ draft = NoDraft
    /\ shutdown = NoShutdown
    /\ call = NoCall
    /\ contentlines \in Stacks \cup {<<>>}
    /\ linelog = EmptyLineLog
    /\ gap_lines = <<>>
    /\ pc = "new"
    /\ targetlines = <<>>
    /\ annotated = <<>>
    /\ chunks = <<>>
    /\ fixups = <<>>
    /\ chunkstats = <<0, 0>>
    /\ applied = <<>>
    /\ finalcontents = <<>>

\* filefixupstate.__init__: no statement of it or of _buildlinelog raises
__init__ ==
    /\ pc = "new"
    /\ linelog' = _buildlinelog(contentlines)
    /\ gap_lines' = _calculate_gap_lines(_buildlinelog(contentlines))
    /\ pc' = "init"
    /\ UNCHANGED <<contentlines, targetlines, annotated, chunks, fixups,
                   chunkstats, applied, finalcontents, run, outside>>

NextBuild == __init__

SpecBuild == InitBuild /\ [][NextBuild]_vars

---------------------------------------------------------------------------
\* fixupstate, absorb and absorbcmd, for a stack that changes one file:
\* contentlines[1] is the file in the parent of the stack and changeset i of
\* the stack (1 .. Len(contentlines) - 1) holds contentlines[i + 1].  Every
\* changeset of the stack changes the file and may change other files, which
\* absorb leaves alone; the flags of the file are the same everywhere.
\* absorb's arguments opts and the repository are drawn where absorb reads
\* them.

\* the stacks of the runs of absorb
AbsorbStacks == {cl \in Stacks : TotalLines(cl) <= MaxAbsorbLines}

NumCtx == Len(contentlines) - 1

\* the changeset i as it was (0 is the parent of the stack), and as
\* _commitsingle made it
Orig(i) == [kind |-> "orig", idx |-> i]

New(i) == [kind |-> "new", idx |-> i]

\* ctx[path].data()
Data(ctx, cl, fc) ==
    IF ctx.kind = "new" THEN fc[ctx.idx + 1] ELSE cl[ctx.idx + 1]

\* _getnewfilecontents(ctx): the paths whose content differs from ctx's
_getnewfilecontents(i, cl, fc) ==
    IF cl[i + 1] # fc[i + 1] THEN {"path"} ELSE {}

\* ctx.files()
files(i, others) == {"path"} \cup (IF others[i] THEN {"other"} ELSE {})

\* _willbecomenoop answering False for every changeset
_willbecomenoop_never(memworkingcopy, i, pctx, cl, fc, others, inparent) ==
    FALSE

\* _willbecomenoop(memworkingcopy, ctx, pctx); a changeset of the stack has
\* one parent
_willbecomenoop(memworkingcopy, i, pctx, cl, fc, others, inparent) ==
    LET p == IF pctx = None THEN Orig(i - 1) ELSE pctx
    IN  IF ~(files(i, others) \subseteq memworkingcopy) THEN FALSE
        ELSE \A path \in memworkingcopy :
                 /\ (p = Orig(0) => inparent)
                 /\ Data(p, cl, fc) = fc[i + 1]

\* the loop of _commitstack from changeset i on; st holds lastcommitted,
\* nextp1, replacemap ("absent" for no entry, "dropped" for None, "new" for
\* the node of the new commit) and commitp, the parent taken for each
\* changeset that was looked at
RECURSIVE CommitFrom(_, _, _, _, _, _)
CommitFrom(i, st, cl, fc, others, inparent) ==
    IF i > Len(cl) - 1 THEN st
    ELSE LET memworkingcopy == _getnewfilecontents(i, cl, fc)
             p1 == IF st.nextp1 = None THEN Orig(i - 1) ELSE st.nextp1
         IN  IF memworkingcopy = {} /\ st.lastcommitted = None
             THEN CommitFrom(i + 1, [st EXCEPT !.nextp1 = Orig(i)],
                             cl, fc, others, inparent)
             ELSE IF _willbecomenoop(memworkingcopy, i, st.nextp1, cl, fc,
                                     others, inparent)
                  THEN CommitFrom(i + 1,
                                  [st EXCEPT !.replacemap[i] = "dropped",
                                             !.commitp[i] = p1],
                                  cl, fc, others, inparent)
                  ELSE CommitFrom(i + 1,
                                  [lastcommitted |-> New(i),
                                   nextp1 |-> New(i),
                                   replacemap |->
                                       [st.replacemap EXCEPT ![i] = "new"],
                                   commitp |-> [st.commitp EXCEPT ![i] = p1]],
                                  cl, fc, others, inparent)

_commitstack(cl, fc, others, inparent) ==
    CommitFrom(1,
               [lastcommitted |-> None, nextp1 |-> None,
                replacemap |-> [i \in 1..(Len(cl) - 1) |-> "absent"],
                commitp |-> [i \in 1..(Len(cl) - 1) |-> None]],
               cl, fc, others, inparent)

\* absorb after diffwith without the test of dry_run
absorbgate_nodryrun(anyfixups, dry_run, apply_changes, answer) ==
    IF ~anyfixups THEN "nothing"
    ELSE IF ~apply_changes /\ answer # 0 THEN "cancelled"
    ELSE "go"

\* absorb after diffwith: "nothing to absorb", a dry run, "absorb cancelled"
\* when the prompt's answer is not the first choice, or apply and commit
absorbgate(anyfixups, dry_run, apply_changes, answer) ==
    IF ~anyfixups THEN "nothing"
    ELSE IF dry_run THEN "dryrun"
    ELSE IF ~apply_changes /\ answer # 0 THEN "cancelled"
    ELSE "go"

\* what absorbcmd returns (0 for None)
absorbcmd(stats) == IF stats[1] = 0 THEN 1 ELSE 0

\* the state before absorb(): the file's stack, nothing diffed yet
InitAbsorb ==
    /\ contentlines \in AbsorbStacks
    /\ linelog = _buildlinelog(contentlines)
    /\ gap_lines = _calculate_gap_lines(linelog)
    /\ pc = "init"
    /\ targetlines = <<>>
    /\ annotated = <<>>
    /\ chunks = <<>>
    /\ fixups = <<>>
    /\ chunkstats = <<0, 0>>
    /\ applied = <<>>
    /\ finalcontents = <<>>
    /\ run = [NoRun EXCEPT !.stage = "start"]
    /\ draft = NoDraft
    /\ shutdown = NoShutdown
    /\ call = NoCall

\* absorb, with no changeset in the stack: "no changeset to change"
absorb_nostack ==
    /\ run.stage = "start"
    /\ NumCtx = 0
    /\ run' = [run EXCEPT !.stage = "aborted", !.raised = "Abort"]
    /\ UNCHANGED <<pc, contentlines, linelog, gap_lines, targetlines,
                   annotated, chunks, fixups, chunkstats, applied,
                   finalcontents, outside>>

\* absorb up to state.diffwith(targetctx, matcher, fm); a file whose target
\* is its newest content gets no filefixupstate, which is the same as no
\* fixup and no chunk
absorb_diffwith(targetctx) ==
    /\ run.stage = "start"
    /\ NumCtx > 0
    /\ diffwith(targetctx)
    /\ run' = [run EXCEPT !.stage = "diffed", !.calls = <<"diffwith">>]
    /\ UNCHANGED outside

\* absorb from "if not opts.get('edit_lines') and not any(...)" to the
\* prompt; answer is what ui.promptchoice returns
absorb_decide(dry_run, apply_changes, answer) ==
    /\ run.stage = "diffed"
    /\ LET outcome == absorbgate(fixups # <<>>, dry_run, apply_changes, answer)
           prompted == fixups # <<>> /\ ~dry_run /\ ~apply_changes
       IN  run' = [run EXCEPT
                      !.dry_run = dry_run,
                      !.apply_changes = apply_changes,
                      !.answer = IF prompted THEN answer ELSE -1,
                      !.calls = IF prompted THEN Append(@, "promptchoice")
                                ELSE @,
                      !.stage = CASE outcome = "go" -> "confirmed"
                                  [] outcome = "cancelled" -> "cancelled"
                                  [] OTHER -> "done",
                      !.raised = IF outcome = "cancelled" THEN "Abort"
                                 ELSE "none",
                      !.ret = IF outcome \in {"nothing", "dryrun"}
                              THEN absorbcmd(chunkstats) ELSE -1]
    /\ UNCHANGED <<pc, contentlines, linelog, gap_lines, targetlines,
                   annotated, chunks, fixups, chunkstats, applied,
                   finalcontents, outside>>

\* state.apply()
fixupstate_apply ==
    /\ run.stage = "confirmed"
    /\ apply
    /\ run' = [run EXCEPT !.stage = IF pc' = "applied" THEN "applied"
                                    ELSE "failed",
                          !.calls = Append(@, "apply")]
    /\ UNCHANGED outside

\* state.commit(), state.printchunkstats() and the return of absorbcmd
fixupstate_commit(others, inparent) ==
    /\ run.stage = "applied"
    /\ contentlines[1] # <<>> => inparent
    /\ LET done == _commitstack(contentlines, finalcontents, others, inparent)
       IN  run' = [run EXCEPT !.stage = "done",
                              !.calls = @ \o <<"commit", "printchunkstats">>,
                              !.others = others,
                              !.inparent = inparent,
                              !.replacemap = done.replacemap,
                              !.commitp = done.commitp,
                              !.ret = absorbcmd(chunkstats)]
    /\ UNCHANGED <<pc, contentlines, linelog, gap_lines, targetlines,
                   annotated, chunks, fixups, chunkstats, applied,
                   finalcontents, outside>>

NextAbsorb ==
    \/ absorb_nostack
    \/ \E targetctx \in Targets : absorb_diffwith(targetctx)
    \/ \E dry_run, apply_changes \in BOOLEAN, answer \in {0, 1} :
           absorb_decide(dry_run, apply_changes, answer)
    \/ fixupstate_apply
    \/ \E others \in [1..NumCtx -> BOOLEAN], inparent \in BOOLEAN :
           fixupstate_commit(others, inparent)

SpecAbsorb == InitAbsorb /\ [][NextAbsorb]_vars

---------------------------------------------------------------------------
\* getdraftstack.  A repository is the first-parent chain of its changesets:
\* changeset i has the first parent i - 1, and 0 is the null changeset, which
\* is public.  A changeset records ispublic(), obsolete() and
\* len(parents()), which is 1 or 2.  limit = 0 stands for None too (both
\* are false in "if limit").

MaxChain == 4
MaxLimit == 3

Changesets ==
    [ispublic : BOOLEAN, obsolete : BOOLEAN, parents : {1, 2}]

Repos == UNION {[1..n -> Changesets] : n \in 1..MaxChain}

Limits == (-1)..MaxLimit

\* the while loop of getdraftstack, from ctx with result collected so far;
\* this one never leaves the loop at a merge
RECURSIVE getdraftstack_loop_merges(_, _, _, _)
getdraftstack_loop_merges(repo, ctx, limit, result) ==
    IF ctx = 0 \/ repo[ctx].ispublic \/ repo[ctx].obsolete THEN result
    ELSE IF limit # 0 /\ Len(result) >= limit THEN result
    ELSE getdraftstack_loop_merges(repo, ctx - 1, limit, Append(result, ctx))

getdraftstack_merges(repo, headctx, limit) ==
    Reverse(getdraftstack_loop_merges(repo, headctx, limit, <<>>))

\* the while loop of getdraftstack, from ctx with result collected so far
RECURSIVE getdraftstack_loop(_, _, _, _)
getdraftstack_loop(repo, ctx, limit, result) ==
    IF ctx = 0 \/ repo[ctx].ispublic \/ repo[ctx].obsolete THEN result
    ELSE IF limit # 0 /\ Len(result) >= limit THEN result
    ELSE IF repo[ctx].parents > 1 THEN result
    ELSE getdraftstack_loop(repo, ctx - 1, limit, Append(result, ctx))

getdraftstack(repo, headctx, limit) ==
    Reverse(getdraftstack_loop(repo, headctx, limit, <<>>))

\* before a call of getdraftstack(headctx, limit) in some repository
InitDraft ==
    /\ NoAbsorb
    /\ shutdown = NoShutdown
    /\ call = NoCall
    /\ \E repo \in Repos, headctx \in 1..MaxChain, limit \in Limits :
           /\ headctx <= Len(repo)
           /\ draft = [pc |-> "start", repo |-> repo, headctx |-> headctx,
                       limit |-> limit, result |-> <<>>]

getdraftstack_call ==
    /\ draft.pc = "start"
    /\ draft' = [draft EXCEPT
                    !.pc = "done",
                    !.result = getdraftstack(draft.repo, draft.headctx,
                                             draft.limit)]
    /\ UNCHANGED <<absorbvars, shutdown, call>>

NextDraft == getdraftstack_call

SpecDraft == InitDraft /\ [][NextDraft]_vars

---------------------------------------------------------------------------
\* wait_for_shutdown (eden/fs/cli/daemon.py) and the process it waits for.
\* The process exits at any moment, on its own or, once SIGKILL was sent,
\* because of it.  Time is counted in polls: poll_until calls its function,
\* returns if the result is not None, raises TimeoutError if the time is
\* up, and sleeps otherwise; a timeout of n allows n sleeps.  eperm says
\* whether the caller lacks the permission to signal the process.

MaxPolls == 3

\* ProcUtils.is_process_alive: os.kill(pid, 0) succeeds, or fails with EPERM,
\* while the process exists
is_process_alive(s) == s.alive

\* one round of poll_until(process_exited, timeout) in
\* wait_for_process_exit: "True" and "False" are what wait_for_process_exit
\* returns, "sleep" is another round
wait_for_process_exit(s) ==
    IF ~is_process_alive(s) THEN "True"
    ELSE IF s.left = 0 THEN "False"
    ELSE "sleep"

\* os.kill(pid, signal.SIGKILL)
os_kill(s) ==
    IF ~s.alive THEN "ESRCH" ELSE IF s.eperm THEN "EPERM" ELSE "sent"

\* before wait_for_shutdown(pid, timeout, kill_timeout); the process may be
\* gone already
InitShutdown ==
    /\ NoAbsorb
    /\ draft = NoDraft
    /\ call = NoCall
    /\ \E alive, eperm \in BOOLEAN, timeout, kill_timeout \in 0..MaxPolls :
           shutdown = [pc |-> "wait", alive |-> alive,
                       exit |-> IF alive THEN "none" ELSE "own",
                       sent |-> FALSE, eperm |-> eperm, left |-> timeout,
                       kill_timeout |-> kill_timeout, ret |-> "none",
                       errno |-> "none"]

\* the process exits
process_exits ==
    /\ shutdown.pc # "none"
    /\ shutdown.alive
    /\ shutdown' = [shutdown EXCEPT
                       !.alive = FALSE,
                       !.exit = IF shutdown.sent THEN "killed" ELSE "own"]
    /\ UNCHANGED <<absorbvars, draft, call>>

\* wait_for_shutdown: a round of wait_for_process_exit(pid, timeout), then
\* "return True" or print_stderr
wait_for_shutdown ==
    /\ shutdown.pc = "wait"
    /\ LET r == wait_for_process_exit(shutdown)
       IN  shutdown' =
               CASE r = "True" ->
                        [shutdown EXCEPT !.pc = "returned", !.ret = "True"]
                 [] r = "False" -> [shutdown EXCEPT !.pc = "sigkill"]
                 [] OTHER -> [shutdown EXCEPT !.left = @ - 1]
    /\ UNCHANGED <<absorbvars, draft, call>>

\* sigkill_process up to its wait: os.kill, the errors, "if timeout <= 0";
\* wait_for_shutdown returns False when sigkill_process returns
sigkill_process ==
    /\ shutdown.pc = "sigkill"
    /\ LET r == os_kill(shutdown)
       IN  shutdown' =
               CASE r = "ESRCH" ->
                        [shutdown EXCEPT !.pc = "returned", !.ret = "False",
                                         !.errno = "ESRCH"]
                 [] r = "EPERM" ->
                        [shutdown EXCEPT !.pc = "raised",
                                         !.ret = "ShutdownError",
                                         !.errno = "EPERM"]
                 [] shutdown.kill_timeout <= 0 ->
                        [shutdown EXCEPT !.pc = "returned", !.ret = "False",
                                         !.sent = TRUE]
                 [] OTHER ->
                        [shutdown EXCEPT !.pc = "killwait", !.sent = TRUE,
                                         !.left = shutdown.kill_timeout]
    /\ UNCHANGED <<absorbvars, draft, call>>

\* sigkill_process: a round of wait_for_process_exit(pid, timeout)
sigkill_process_wait ==
    /\ shutdown.pc = "killwait"
    /\ LET r == wait_for_process_exit(shutdown)
       IN  shutdown' =
               CASE r = "True" ->
                        [shutdown EXCEPT !.pc = "returned", !.ret = "False"]
                 [] r = "False" ->
                        [shutdown EXCEPT !.pc = "raised",
                                         !.ret = "ShutdownError"]
                 [] OTHER -> [shutdown EXCEPT !.left = @ - 1]
    /\ UNCHANGED <<absorbvars, draft, call>>

NextShutdown ==
    \/ process_exits
    \/ wait_for_shutdown
    \/ sigkill_process
    \/ sigkill_process_wait

SpecShutdown == InitShutdown /\ [][NextShutdown]_vars

---------------------------------------------------------------------------
\* _iscontinuous on its own: any integers a1 and a2, any sorted list of gap
\* positions k + 0.5 (stored as 2k + 1)

MaxGaps == 3
MaxGapLine == 4

GapPositions == {2 * k + 1 : k \in 0..(MaxGapLine - 1)}

GapLists ==
    {g \in UNION {[1..n -> GapPositions] : n \in 0..MaxGaps} :
        \A k \in 1..(Len(g) - 1) : g[k] <= g[k + 1]}

LineNumbers == (-1)..(MaxGapLine + 1)

InitContinuous ==
    /\ NoAbsorb
    /\ draft = NoDraft
    /\ shutdown = NoShutdown
    /\ \E gaps \in GapLists, a1, a2 \in LineNumbers :
           call = [pc |-> "start", gaps |-> gaps, a1 |-> a1, a2 |-> a2,
                   result |-> FALSE]

_iscontinuous_call ==
    /\ call.pc = "start"
    /\ call' = [call EXCEPT
                   !.pc = "done",
                   !.result = _iscontinuous(call.gaps, call.a1, call.a2)]
    /\ UNCHANGED <<absorbvars, draft, shutdown>>

NextContinuous == _iscontinuous_call

SpecContinuous == InitContinuous /\ [][NextContinuous]_vars

---------------------------------------------------------------------------
\* _optimizefixups on its own: any list of fixups (rev, a1, a2, b1, b2) of
\* the kind _analysediffchunk builds (an edit layer as rev, a1 <= a2,
\* b1 <= b2, at most one line on each side) and any gap list with at most
\* one gap

MaxFixups == 3
MaxFixLine == 2
MaxFixTarget == 1

FixupTuples ==
    {<<rev, a1, a1 + da, b1, b1 + db>> :
        rev \in {4, 6}, a1 \in 0..MaxFixLine, da \in {0, 1},
        b1 \in 0..MaxFixTarget, db \in {0, 1}}

FixupLists == UNION {[1..n -> FixupTuples] : n \in 0..MaxFixups}

InitOptimize ==
    /\ NoAbsorb
    /\ draft = NoDraft
    /\ shutdown = NoShutdown
    /\ \E gaps \in {g \in GapLists : Len(g) <= 1}, fs \in FixupLists :
           call = [pc |-> "start", gaps |-> gaps, fixups |-> fs,
                   result |-> <<>>]

_optimizefixups_call ==
    /\ call.pc = "start"
    /\ call' = [call EXCEPT
                   !.pc = "done",
                   !.result = _optimizefixups(call.gaps, call.fixups)]
    /\ UNCHANGED <<absorbvars, draft, shutdown>>

NextOptimize == _optimizefixups_call

SpecOptimize == InitOptimize /\ [][NextOptimize]_vars

---------------------------------------------------------------------------
\* Properties

Newest == Len(contentlines)

\* the (rev, linenum) of the lines of revision r
Tags(llog, r) ==
    LET all == checkout_lines(llog, r)
    IN  {all[k] : k \in 1..(Len(all) - 1)}

\* the revisions of the deleted lines [a1, a2) of a chunk
HunkRevs(c) == {annotated[i + 1][1] : i \in c[1]..(c[2] - 1)}

\* a recorded gap lies strictly between lines a1 and a2
GapInside(a1, a2) ==
    \E g \in 1..Len(gap_lines) : 2 * a1 < gap_lines[g] /\ gap_lines[g] < 2 * a2

\* lines with the ranges [a1, a2) of the fixups 1..k replaced by the target
\* lines [b1, b2)
RECURSIVE Patched(_, _, _, _)
Patched(lines, fs, k, tl) ==
    IF k = 0 THEN lines
    ELSE Patched(SubSeq(lines, 1, fs[k][2]) \o SubSeq(tl, fs[k][4] + 1, fs[k][5])
                   \o SubSeq(lines, fs[k][3] + 1, Len(lines)),
                 fs, k - 1, tl)

\* deleted and inserted lines the fixups fs cover
RECURSIVE Covered(_)
Covered(fs) ==
    IF fs = <<>> THEN <<0, 0>>
    ELSE LET f == Head(fs)
             rest == Covered(Tail(fs))
         IN  <<rest[1] + f[3] - f[2], rest[2] + f[5] - f[4]>>

\* every chunk of diffwith was classified as a whole: its fixups cover all
\* its deleted lines and, unless they are per-line deletions, all its
\* inserted lines
AllWhole ==
    \A k \in 1..Len(chunks) :
        LET c == chunks[k].chunk
            cov == Covered(chunks[k].newfixups)
        IN  /\ chunks[k].newfixups # <<>>
            /\ cov[1] = c[2] - c[1]
            /\ cov[2] = c[4] - c[3]

\* the fixups of diffwith before _optimizefixups merged them
RawFixups ==
    Flatten([k \in 1..Len(chunks) |->
                newfixups(chunks[k].chunk, annotated, gap_lines)])

\* C1: before any fixup is applied, checking out revision 2 * (i + 1) of the
\* linelog built from the snapshots gives snapshot i, for every i
C1_BuildRoundTrip ==
    pc \in {"init", "diffed"} =>
        _checkoutlinelog(linelog, contentlines, targetlines) = contentlines

C1_Witness ==
    /\ pc = "init"
    /\ Len(contentlines) = 3
    /\ contentlines[1] # <<>>
    /\ \E k \in 1..Len(linelog.entries) : linelog.entries[k].hi = 3
    /\ \E k \in 1..Len(linelog.entries) : linelog.entries[k].hi = 5

\* C2: after diffwith and apply the final content of the oldest snapshot is
\* its original content
C2_OldestUnchanged ==
    pc = "applied" => finalcontents[1] = contentlines[1]

C2_Witness ==
    /\ pc = "applied"
    /\ Len(contentlines) >= 2
    /\ contentlines[1] # <<>>
    /\ \E k \in 1..Len(chunks) : 1 \in HunkRevs(chunks[k].chunk)
    /\ fixups # <<>>
    /\ finalcontents[Newest] # contentlines[Newest]

\* C3: a hunk whose deleted lines all originate from linelog revision 1
\* produces no fixup
C3_OldestImmunity ==
    \A k \in 1..Len(chunks) :
        LET c == chunks[k].chunk
        IN  (c[1] < c[2] /\ HunkRevs(c) = {1}) => chunks[k].newfixups = <<>>

C3_Witness ==
    /\ pc = "diffed"
    /\ Len(contentlines) >= 2
    /\ \E k \in 1..Len(chunks) :
          LET c == chunks[k].chunk
          IN  /\ c[1] < c[2]
              /\ HunkRevs(c) = {1}
              /\ c[2] - c[1] = c[4] - c[3]
              /\ GapInside(c[1], c[2] - 1)

\* C4: a hunk whose deleted lines all originate from one revision rev other
\* than 1, with no recorded gap between them, produces exactly the fixup
\* (rev + 1, a1, a2, b1, b2)
C4_SingleRevAttribution ==
    \A k \in 1..Len(chunks) :
        LET c == chunks[k].chunk
        IN  \A rev \in HunkRevs(c) :
                (c[1] < c[2] /\ HunkRevs(c) = {rev} /\ rev # 1
                             /\ ~GapInside(c[1], c[2] - 1))
                => chunks[k].newfixups = <<(<<rev + 1, c[1], c[2], c[3], c[4]>>)>>

C4_Witness ==
    /\ pc = "diffed"
    /\ Len(contentlines) = 3
    /\ linelog.max_rev = 5
    /\ \E k \in 1..Len(chunks) :
          LET c == chunks[k].chunk
          IN  /\ c[2] - c[1] >= 2
              /\ HunkRevs(c) = {3}
              /\ ~GapInside(c[1], c[2] - 1)
              /\ c[4] > c[3]

\* C5: after apply the final content of the newest snapshot is its original
\* content with the range [a1, a2) of every fixup replaced by the target
\* lines [b1, b2); it is the target content when every hunk was classified
\* as a whole
C5_NewestContent ==
    pc = "applied" =>
        /\ finalcontents[Newest] =
               Patched(contentlines[Newest], fixups, Len(fixups), targetlines)
        /\ AllWhole => finalcontents[Newest] = targetlines

C5_Witness ==
    /\ pc = "applied"
    /\ Len(fixups) >= 2
    /\ \E k \in 1..Len(chunks) : chunks[k].newfixups = <<>>
    /\ \E k \in 1..Len(fixups) : fixups[k][5] > fixups[k][4]
    /\ finalcontents[Newest] # targetlines
    /\ finalcontents[Newest] # contentlines[Newest]

\* C6: after apply, revision 2 * i holds the lines a fixup inserted iff the
\* fixup's target revision t is <= 2 * i, it holds a line the fixup deleted
\* only if t > 2 * i and it held the line before, and the final content of
\* snapshot i is what the fixups with t <= 2 * i alone produce
C6_FixupVisibility ==
    pc = "applied" =>
        \A i \in 1..Len(contentlines) :
            LET r == 2 * i
                upto == SelectSeq(fixups, LAMBDA f : f[1] <= r)
                built == _buildlinelog(contentlines)
            IN  /\ \A k \in 1..Len(fixups) :
                       LET f == fixups[k]
                       IN  /\ \A n \in f[4]..(f[5] - 1) :
                                  (<<f[1], n>> \in Tags(linelog, r)) <=> (r >= f[1])
                           /\ \A a \in f[2]..(f[3] - 1) :
                                  (annotated[a + 1] \in Tags(linelog, r))
                                      <=> (r < f[1]
                                           /\ annotated[a + 1] \in Tags(built, r))
                /\ finalcontents[i] =
                       _checkoutlinelog(applyfixups(built, upto).llog,
                                        contentlines, targetlines)[i]

C6_Witness ==
    /\ pc = "applied"
    /\ Len(contentlines) = 3
    /\ \E k \in 1..Len(fixups) :
          /\ fixups[k][1] = 6
          /\ fixups[k][3] > fixups[k][2]
          /\ fixups[k][5] > fixups[k][4]
    /\ \E k \in 1..Len(fixups) : fixups[k][1] = 4
    /\ finalcontents[2] # contentlines[2]
    /\ finalcontents[3] # finalcontents[2]

\* C7: diffwith with a target equal to the newest snapshot's content yields
\* no fixup and counts no chunk
C7_NoopTarget ==
    (pc # "init" /\ targetlines = contentlines[Newest]) =>
        fixups = <<>> /\ chunkstats = <<0, 0>>

C7_Witness ==
    /\ pc = "diffed"
    /\ Len(contentlines) >= 2
    /\ contentlines[Newest] # <<>>
    /\ contentlines[Newest] # contentlines[Newest - 1]
    /\ targetlines = contentlines[Newest]

InScenario ==
    /\ contentlines = <<ScenarioS0, ScenarioS1>>
    /\ targetlines = ScenarioTarget

\* C8 as claimed: in the scenario, one fixup targeting S1's edit revision for
\* line index 2, the final content of S1 is the target and that of S0 is S0
C8_ScenarioAsClaimed ==
    (pc = "applied" /\ InScenario) =>
        /\ fixups = <<(<<4, 2, 3, 2, 3>>)>>
        /\ finalcontents = <<ScenarioS0, ScenarioTarget>>

\* C8: in the scenario, the changed line index 2 originates from S0, so
\* diffwith produces no fixup for it, and after apply the final content of
\* S1 is still S1 and that of S0 is S0
C8_ScenarioNotAbsorbed ==
    (pc = "applied" /\ InScenario) =>
        /\ fixups = <<>>
        /\ chunkstats = <<0, 1>>
        /\ finalcontents = <<ScenarioS0, ScenarioS1>>

C8_Witness ==
    /\ pc = "applied"
    /\ InScenario
    /\ Len(chunks) = 1
    /\ chunks[1].chunk = <<2, 3, 2, 3>>
    /\ HunkRevs(chunks[1].chunk) = {1}

\* C9 as claimed: apply makes its edit_chunk calls in descending order of
\* the target revision, ties in descending order of a1
C9_DescendingRevision ==
    pc = "applied" =>
        \A i, j \in 1..Len(applied) :
            i < j => \/ applied[i][1] > applied[j][1]
                     \/ /\ applied[i][1] = applied[j][1]
                        /\ applied[i][2] >= applied[j][2]

\* C9: apply makes its edit_chunk calls in the reverse of the order of
\* self.fixups, which is strictly descending a1 whatever the target
\* revisions are
C9_ReverseListOrder ==
    pc = "applied" =>
        /\ applied = Reverse(fixups)
        /\ \A i, j \in 1..Len(applied) : i < j => applied[i][2] > applied[j][2]

C9_Witness ==
    /\ pc = "applied"
    /\ \E i, j \in 1..Len(applied) :
          /\ i < j
          /\ applied[i][1] < applied[j][1]
          /\ applied[i][2] > applied[j][2]

\* C10: the final contents after applying the merged fixups are those after
\* applying the fixups as they were before _optimizefixups merged them
C10_OptimizerEquivalence ==
    pc = "applied" =>
        finalcontents =
            _checkoutlinelog(
                applyfixups(_buildlinelog(contentlines), RawFixups).llog,
                contentlines, targetlines)

Interrupted(a1, a2) ==
    /\ a1 < a2
    /\ \E k \in LinePos(linelog, max_rev(linelog), a1)
                  ..LinePos(linelog, max_rev(linelog), a2) :
          /\ k <= Len(linelog.entries)
          /\ ~Visible(linelog.entries[k], max_rev(linelog))

\* C12 with the recorded gaps: the lines [a1, a2) of every fixup of diffwith
\* originate from revision t - 1 and no position of gap_lines lies strictly
\* between a1 and a2 - 1
C12_NoRecordedGapInFixup ==
    pc = "diffed" =>
        \A n \in 1..Len(fixups) :
            LET f == fixups[n]
            IN  /\ \A i \in f[2]..(f[3] - 1) : annotated[i + 1][1] = f[1] - 1
                /\ ~GapInside(f[2], f[3] - 1)

\* C12: the lines [a1, a2) of every fixup of diffwith originate from
\* revision t - 1 and no line that another revision deleted lies between
\* them, so a range interrupted by another revision's edit never yields one
\* fixup
C12_NoAttributionAcrossInterruption ==
    pc = "diffed" =>
        \A n \in 1..Len(fixups) :
            LET f == fixups[n]
            IN  /\ \A i \in f[2]..(f[3] - 1) : annotated[i + 1][1] = f[1] - 1
                /\ ~Interrupted(f[2], f[3] - 1)

AdjacentRevs(a1) ==
    {annotated[n + 1][1] : n \in {a1, Max(0, a1 - 1)}} \ {0, 1}

\* C14: a pure insertion produces a fixup only if the lines next to it that
\* are not of revision 1 all belong to one revision r, and the fixup is then
\* (r + 1, a1, a1, b1, b2); with two such revisions, or none, it produces
\* no fixup
C14_PureInsertion ==
    \A k \in 1..Len(chunks) :
        LET c == chunks[k].chunk
        IN  c[1] = c[2] =>
                IF Cardinality(AdjacentRevs(c[1])) = 1
                THEN \A r \in AdjacentRevs(c[1]) :
                         chunks[k].newfixups = <<(<<r + 1, c[1], c[1], c[3], c[4]>>)>>
                ELSE chunks[k].newfixups = <<>>

C14_Witness ==
    /\ pc = "diffed"
    /\ annotated[1][1] = 1
    /\ \E k \in 1..Len(chunks) :
          LET c == chunks[k].chunk
          IN  /\ c[1] = c[2]
              /\ c[1] = 1
              /\ Len(annotated) > 2
              /\ AdjacentRevs(c[1]) = {3}
              /\ chunks[k].newfixups # <<>>

\* C15: building from an empty sequence of snapshots fails: __init__ never
\* completes with a log
C15_EmptyBuildFails ==
    contentlines = <<>> => pc # "init"

\* C16: no edit_chunk call of apply finds an invalid range: apply never
\* fails, and every call it made has a1 <= a2 within the newest content and
\* b1 <= b2 within the target
C16_ValidRanges ==
    /\ pc # "failed"
    /\ linelog.ok
    /\ pc = "applied" =>
           \A n \in 1..Len(applied) :
               LET f == applied[n]
               IN  /\ 0 <= f[2] /\ f[2] <= f[3]
                   /\ f[3] <= Len(contentlines[Newest])
                   /\ 0 <= f[4] /\ f[4] <= f[5]
                   /\ f[5] <= Len(targetlines)

C16_Witness ==
    /\ pc = "applied"
    /\ Len(applied) >= 3
    /\ \E n \in 1..Len(applied) : applied[n][3] = Len(contentlines[Newest])
    /\ \E n \in 1..Len(applied) : applied[n][5] > applied[n][4]
    /\ \E n, m \in 1..Len(applied) : applied[n][1] # applied[m][1]

\* a second run of apply: the loop over the same fixups from the log as it
\* was built, then the checkout
SecondRun ==
    LET start == _buildlinelog(contentlines)
        done == ApplyFrom([llog |-> start, calls |-> <<>>], max_rev(start),
                          fixups, Len(fixups))
    IN  [llog |-> done.llog,
         finalcontents |-> _checkoutlinelog(done.llog, contentlines, targetlines)]

Called == {run.calls[n] : n \in 1..Len(run.calls)}

\* C18: apply and commit run only when a file has a fixup, dry_run is not
\* set and apply_changes is set or the prompt was answered yes; commit runs
\* only after apply; when the prompt is declined absorb aborts and neither
\* runs
C18_ApplyCommitGate ==
    /\ ("apply" \in Called \/ "commit" \in Called) =>
           /\ fixups # <<>>
           /\ ~run.dry_run
           /\ run.apply_changes \/ run.answer = 0
    /\ \A n \in 1..Len(run.calls) :
           run.calls[n] = "commit" =>
               \E m \in 1..(n - 1) : run.calls[m] = "apply"
    /\ run.stage \in {"confirmed", "applied"} => ~("commit" \in Called)
    /\ run.stage = "confirmed" => ~("apply" \in Called)
    /\ (run.answer # -1 /\ run.answer # 0) =>
           /\ run.stage = "cancelled"
           /\ run.raised = "Abort"
           /\ ~("apply" \in Called)
           /\ ~("commit" \in Called)
           /\ linelog = _buildlinelog(contentlines)

C18_Witness ==
    /\ run.stage = "done"
    /\ run.answer = 0
    /\ ~run.apply_changes
    /\ run.calls = <<"diffwith", "promptchoice", "apply", "commit",
                     "printchunkstats">>

\* the chunks this run applied and committed into the stack
Absorbed == IF "commit" \in Called THEN chunkstats[1] ELSE 0

\* C19: absorbcmd returns 1 when no chunk was absorbed by the run and 0
\* when at least one chunk was absorbed
C19_ReturnCode ==
    run.ret # -1 => (run.ret = 1 <=> Absorbed = 0)

\* a changeset changes nothing relative to ctx p: no other file, the file is
\* in p, and with the same content
EmptyOn(i, p, data) ==
    /\ ~run.others[i]
    /\ p = Orig(0) => run.inparent
    /\ data = Data(p, contentlines, finalcontents)

\* the parent changeset i is or would be committed on: the one _commitstack
\* took for it, its own parent when _commitstack passed over it
ParentOf(i) == IF run.commitp[i] = None THEN Orig(i - 1) ELSE run.commitp[i]

\* C20: after _commitstack, every changeset that changed something before
\* the run and, with the new contents, changes nothing relative to the
\* parent it would be committed on, is mapped to None in replacemap and not
\* committed again
C20_EmptyDropped ==
    (run.stage = "done" /\ "commit" \in Called) =>
        \A i \in 1..NumCtx :
            (/\ ~EmptyOn(i, Orig(i - 1), contentlines[i + 1])
             /\ EmptyOn(i, ParentOf(i), finalcontents[i + 1]))
            => run.replacemap[i] = "dropped"

C20_Witness ==
    /\ run.stage = "done"
    /\ "commit" \in Called
    /\ NumCtx = 2
    /\ run.replacemap[1] = "new"
    /\ run.replacemap[2] = "dropped"
    /\ run.commitp[2] = New(1)
    /\ ~EmptyOn(2, Orig(1), contentlines[3])

\* C21: getdraftstack returns the changesets oldest first as a contiguous
\* first-parent chain ending at headctx (each one is the first parent of the
\* next, the last one is headctx), at most limit of them when limit is
\* positive, and every one is non-public, non-obsolete and has exactly one
\* parent
C21_DraftStack ==
    draft.pc = "done" =>
        LET r == draft.result
        IN  /\ \A k \in 1..(Len(r) - 1) : r[k] = r[k + 1] - 1
            /\ r # <<>> => r[Len(r)] = draft.headctx
            /\ draft.limit > 0 => Len(r) <= draft.limit
            /\ \A k \in 1..Len(r) :
                   /\ ~draft.repo[r[k]].ispublic
                   /\ ~draft.repo[r[k]].obsolete
                   /\ draft.repo[r[k]].parents = 1

\* a stack of two changesets cut by the limit, below a head that is not the
\* tip, in a repository with a merge under the stack
C21_Witness ==
    /\ draft.pc = "done"
    /\ draft.limit = 2
    /\ draft.result = <<2, 3>>
    /\ draft.repo[1].parents = 2
    /\ ~draft.repo[1].ispublic
    /\ ~draft.repo[1].obsolete

\* C22: under every interleaving of the process's exit with the timeout and
\* the signal, wait_for_shutdown returns True if the process exited on its
\* own, returns False only if SIGKILL was sent and the process did not exit
\* on its own, and raises ShutdownError only when SIGKILL could not be sent
\* or the process outlived kill_timeout after it
C22_ShutdownResult ==
    /\ shutdown.pc = "returned" =>
           /\ shutdown.exit = "own" => shutdown.ret = "True"
           /\ shutdown.ret = "True" => shutdown.exit = "own" /\ ~shutdown.sent
           /\ shutdown.ret = "False" =>
                  shutdown.sent /\ shutdown.exit # "own"
    /\ shutdown.pc = "raised" =>
           /\ shutdown.ret = "ShutdownError"
           /\ shutdown.errno = "EPERM" \/ shutdown.sent

\* what does hold: True is returned only for a process that exited on its
\* own before any signal, and ShutdownError is raised only on EPERM or after
\* a SIGKILL that was awaited for kill_timeout
C22_TrueMeansOwnExit ==
    /\ shutdown.ret = "True" => shutdown.exit = "own" /\ ~shutdown.sent
    /\ shutdown.ret = "ShutdownError" =>
           \/ shutdown.errno = "EPERM" /\ ~shutdown.sent
           \/ shutdown.sent /\ shutdown.kill_timeout > 0 /\ shutdown.left = 0

\* the process exited on its own between the timeout and os.kill, and
\* wait_for_shutdown returned False without having sent a signal
C22_Race ==
    /\ shutdown.pc = "returned"
    /\ shutdown.ret = "False"
    /\ shutdown.errno = "ESRCH"
    /\ shutdown.exit = "own"
    /\ ~shutdown.sent

\* C23: _iscontinuous(a1, a2) is true if and only if no gap position of the
\* sorted list lies strictly between a1 and a2 (always true when a1 >= a2)
C23_IsContinuous ==
    call.pc = "done" =>
        (call.result <=>
            ~\E k \in 1..Len(call.gaps) :
                2 * call.a1 < call.gaps[k] /\ call.gaps[k] < 2 * call.a2)

\* a gap before a1 and a gap inside (a1, a2): the answer is False
C23_Witness ==
    /\ call.pc = "done"
    /\ call.gaps = <<1, 5>>
    /\ call.a1 = 1
    /\ call.a2 = 3
    /\ ~call.result

\* the number of entries among the first k of all_lines that the newest
\* revision retains
RetainedUpTo(all_lines, k) ==
    Cardinality({j \in 1..k : ~all_lines[j][3]})

\* the boundaries of the runs of deleted entries: k + 0.5 (as 2k + 1) for
\* every retained line, with index k in the newest revision, that a deleted
\* entry follows
RunBoundaries(all_lines) ==
    {2 * (RetainedUpTo(all_lines, j - 1) - 1) + 1 :
        j \in {i \in 2..Len(all_lines) :
                   all_lines[i][3] /\ ~all_lines[i - 1][3]}}

\* C24: _calculate_gap_lines records exactly one gap for every maximal run of
\* deleted entries that follows a retained line, at k + 0.5 for the retained
\* line's index k in the newest revision, in ascending order: deleted
\* entries never advance the line counter
C24_GapsAtRunBoundaries ==
    pc = "init" =>
        /\ {gap_lines[g] : g \in 1..Len(gap_lines)} =
               RunBoundaries(checkout_lines_full(linelog, max_rev(linelog)))
        /\ \A g \in 1..(Len(gap_lines) - 1) : gap_lines[g] < gap_lines[g + 1]

\* what does hold: the gaps are distinct, ascending, and none lies outside
\* the newest revision's lines
C24_GapsAscending ==
    pc = "init" =>
        /\ \A g \in 1..(Len(gap_lines) - 1) : gap_lines[g] < gap_lines[g + 1]
        /\ \A g \in 1..Len(gap_lines) : gap_lines[g] >= 1

\* the fixups k and k + 1 of fs are to be merged: same revision, the second
\* starts where the first ends on both sides, and no gap lies between the
\* lines a1 - 1 and a1
Mergeable(gaps, fs, k) ==
    /\ fs[k + 1][1] = fs[k][1]
    /\ fs[k + 1][2] = fs[k][3]
    /\ fs[k + 1][4] = fs[k][5]
    /\ ~\E g \in 1..Len(gaps) : gaps[g] = 2 * fs[k + 1][2] - 1

\* the indices at which a fixup of the output starts: the first fixup and
\* every fixup not merged with the one before it
RunStarts(gaps, fs) ==
    {k \in 1..Len(fs) : k = 1 \/ ~Mergeable(gaps, fs, k - 1)}

\* the lines [lo, hi) of the fixups of revision rev, on the side whose
\* bounds are the fields lo and hi
CoveredBy(fs, rev, lo, hi) ==
    UNION {fs[k][lo]..(fs[k][hi] - 1) : k \in {i \in 1..Len(fs) : fs[i][1] = rev}}

\* C25: _optimizefixups merges two consecutive fixups exactly when they
\* target the same revision, the second starts where the first ends on both
\* sides and no gap lies between the lines a1 - 1 and a1: the output has one
\* fixup for every maximal run of such fixups, from the run's first a1 and
\* b1 to its last a2 and b2, in the order of the input, and covers the same
\* deleted and inserted lines of every revision as the input
C25_OptimizeMerges ==
    call.pc = "done" =>
        LET fs == call.fixups
            out == call.result
            starts == RunStarts(call.gaps, fs)
            start(j) == CHOOSE s \in starts :
                            Cardinality({t \in starts : t <= s}) = j
            end(j) == IF j = Cardinality(starts) THEN Len(fs)
                      ELSE start(j + 1) - 1
        IN  /\ Len(out) = Cardinality(starts)
            /\ \A j \in 1..Len(out) :
                   out[j] = <<fs[start(j)][1], fs[start(j)][2], fs[end(j)][3],
                              fs[start(j)][4], fs[end(j)][5]>>
            /\ \A rev \in {4, 6} :
                   /\ CoveredBy(out, rev, 2, 3) = CoveredBy(fs, rev, 2, 3)
                   /\ CoveredBy(out, rev, 4, 5) = CoveredBy(fs, rev, 4, 5)

\* three one-line deletions in a row with a gap before the third: the first
\* two are merged, the third is kept
C25_Witness ==
    /\ call.pc = "done"
    /\ call.gaps = <<3>>
    /\ call.fixups = <<(<<4, 0, 1, 0, 0>>), (<<4, 1, 2, 0, 0>>),
                       (<<4, 2, 3, 0, 0>>)>>
    /\ call.result = <<(<<4, 0, 2, 0, 0>>), (<<4, 2, 3, 0, 0>>)>>

\* applying the fixups fs[k], fs[k - 1], ..., fs[1] in this order to llog:
\* before each one is applied, the lines of revision mrev up to its a2 are
\* those of the log orig, so its a1 and a2 still mean the lines they meant
\* when diffwith computed them
RECURSIVE CoordsKept(_, _, _, _, _)
CoordsKept(llog, orig, mrev, fs, k) ==
    IF k = 0 THEN TRUE
    ELSE /\ llog.ok
         /\ fs[k][3] <= LineCount(llog, mrev)
         /\ SubSeq(checkout_lines(llog, mrev), 1, fs[k][3]) =
                SubSeq(checkout_lines(orig, mrev), 1, fs[k][3])
         /\ CoordsKept(edit_chunk(llog, mrev, fs[k][2], fs[k][3], fs[k][1],
                                  fs[k][4], fs[k][5]),
                       orig, mrev, fs, k - 1)

\* C26: after diffwith the fixups are sorted by a1 ascending and their
\* deleted ranges are pairwise disjoint (each a2 is at most the next a1), so
\* applying them last to first leaves the lines of every fixup not yet
\* applied where its a1 and a2 say
C26_SortedDisjoint ==
    pc = "diffed" =>
        /\ \A k \in 1..(Len(fixups) - 1) :
               /\ fixups[k][2] <= fixups[k + 1][2]
               /\ fixups[k][3] <= fixups[k + 1][2]
        /\ CoordsKept(linelog, linelog, max_rev(linelog), fixups, Len(fixups))

\* two fixups of which the later one, applied first, changes the number of
\* lines of the newest content that the earlier one's coordinates count
C26_Witness ==
    /\ pc = "diffed"
    /\ Len(fixups) >= 2
    /\ \E k \in 2..Len(fixups) :
           /\ fixups[k][1] < max_rev(linelog)
           /\ fixups[k][5] - fixups[k][4] # fixups[k][3] - fixups[k][2]
    /\ fixups[1][2] < fixups[1][3]

\* C27: every fixup of diffwith targets an even linelog revision t with
\* 4 <= t <= 2 * N, N the number of snapshots: an edit layer, never a
\* snapshot's revision and never revision 2, the edit layer of the first
\* snapshot
C27_EditLayersOnly ==
    \A k \in 1..Len(fixups) :
        /\ fixups[k][1] % 2 = 0
        /\ 4 <= fixups[k][1]
        /\ fixups[k][1] <= 2 * Len(contentlines)

\* three snapshots, a hunk on lines of the first one, which gives no fixup,
\* and fixups for both the second and the third snapshot
C27_Witness ==
    /\ pc = "diffed"
    /\ Len(contentlines) = 3
    /\ \E k \in 1..Len(chunks) :
           /\ 1 \in HunkRevs(chunks[k].chunk)
           /\ chunks[k].newfixups = <<>>
    /\ \E k \in 1..Len(fixups) : fixups[k][1] = 4
    /\ \E k \in 1..Len(fixups) : fixups[k][1] = 6

\* the parent that survives the pass for changeset i: the nearest preceding
\* changeset that was not dropped, as re-committed if it was re-committed,
\* and the parent of the stack if there is none
RECURSIVE SurvivingParent(_)
SurvivingParent(i) ==
    IF i = 1 THEN Orig(0)
    ELSE IF run.replacemap[i - 1] = "new" THEN New(i - 1)
    ELSE IF run.replacemap[i - 1] = "absent" THEN Orig(i - 1)
    ELSE SurvivingParent(i - 1)

\* C28: every changeset _commitstack re-commits is committed on a parent
\* that survives the pass, the nearest preceding changeset left untouched or
\* the changeset re-committed last, never on a changeset the pass dropped
C28_ParentSurvives ==
    (run.stage = "done" /\ "commit" \in Called) =>
        \A i \in 1..NumCtx :
            run.replacemap[i] = "new" =>
                /\ run.commitp[i] = SurvivingParent(i)
                /\ \A j \in 1..NumCtx :
                       run.commitp[i] = Orig(j) => run.replacemap[j] # "dropped"

\* what does hold: a changeset re-committed after a changeset that was left
\* untouched or re-committed is committed on the surviving parent
C28_ParentSurvivesAfterKept ==
    (run.stage = "done" /\ "commit" \in Called) =>
        \A i \in 1..NumCtx :
            (/\ run.replacemap[i] = "new"
             /\ \A j \in 1..(i - 1) : run.replacemap[j] # "dropped")
            => run.commitp[i] = SurvivingParent(i)

\* the first changeset was dropped and the second was re-committed on it
C28_OnDroppedParent ==
    /\ run.stage = "done"
    /\ "commit" \in Called
    /\ NumCtx = 2
    /\ run.replacemap[1] = "dropped"
    /\ run.replacemap[2] = "new"
    /\ run.commitp[2] = Orig(1)

====
